---- MODULE Spec2Model ----
(***************************************************************************)
(* Model of vmdk_plugin/utils/refcount/refcnt.go: the RefCountsMap (a map  *)
(* from volume name to refCount guarded by one RWMutex), its API (GetCount,*)
(* Incr, Decr) as called by concurrent request goroutines, and the startup *)
(* discovery (Init, discoverAndSync, getMountInfo,                         *)
(* syncMountsWithRefCounters).                                             *)
(***************************************************************************)
EXTENDS Integers, Sequences, FiniteSets, TLC

VARIABLES
  refMap,      \* r.refMap: volume name -> refCount (a function on the keys present)
  mtx,         \* r.mtx: [writer, readers] of the sync.RWMutex
  pc,          \* position of every goroutine (request callers and the Init caller)
  arg,         \* vol argument of the call a goroutine is in
  tmp,         \* rc.count as loaded by the goroutine for rc.count++ / rc.count--
  ret,         \* what the goroutine's last call returned
  started,     \* number of API calls the request layer has started
  nIncr,       \* history: Incr calls completed, per volume
  nDecr,       \* history: Decr calls completed, per volume
  balanced,    \* history: every Decr so far found a matching earlier Incr
  incrRets,    \* history: values returned by Incr, per volume
  conc,        \* history: largest number of Incr calls in flight at once, per volume
  base,        \* history: the store when the run began
  envFlag,     \* environment: VDVS_DISCOVER_VOLUMES is set
  clientOk,    \* environment: client.NewClient succeeds
  infoOk,      \* environment: c.Info succeeds
  listOk,      \* environment: c.ContainerList succeeds
  mountRoot,   \* package variable mountRoot
  driverName,  \* package variable driverName
  ctLeft,      \* containers of the list still to inspect
  mounts,      \* mounts of the inspected container still to visit
  tableMounts, \* history: the device /proc/mounts gave for each volume under the mount root
  todo,        \* keys the range loop of syncMountsWithRefCounters has not visited
  engineUse,   \* history: mounts of this driver reported by successful inspections
  nList,       \* history: ContainerList calls
  inspected,   \* history: the ContainerInspect calls, by whether each succeeded
  readFile,    \* history: how reading /proc/mounts went (none, error, ok)
  driverCalls  \* history: the driver calls issued, per volume, in order

storeVars == <<refMap, mtx>>
procVars  == <<pc, arg, tmp, ret>>
histVars  == <<started, nIncr, nDecr, balanced, incrRets, conc, base>>
envVars   == <<envFlag, clientOk, infoOk, listOk>>
discVars  == <<mountRoot, driverName, ctLeft, mounts, tableMounts, todo,
               engineUse, nList, inspected, readFile, driverCalls>>
vars == <<storeVars, procVars, histVars, envVars, discVars>>

----------------------------------------------------------------------------
(* Bounds of the model *)

NumCallers == 2        \* request goroutines
MaxOps == 3            \* API calls the request layer starts in one run
UintBits == 16         \* width given to Go's uint (count wraps modulo 2^UintBits)
MaxContainers == 2     \* containers the engine lists
MaxMounts == 2         \* mounts one container reports
MaxLines == 2          \* lines of /proc/mounts

Vols == {"vol1", "vol2"}
MountDir == <<"mnt", "vmdk">>            \* the mountDir argument of Init
Dev1 == <<"dev", "sdb">>
Dev2 == <<"dev", "sdc">>
Devs == {Dev1, Dev2}
NoDev == <<>>                            \* the empty string, as a path
photonDriver == "photon"
DriverNames == {"vmdk", photonDriver}    \* the name argument of Init, and the drivers of mounts
FsTypes == {"ext4", "xfs"}
Absent == "<absent>"                     \* a key the status map does not hold
InitProc == 0
Callers == 1..NumCallers
Procs == Callers \cup {InitProc}
None == -1
UintMod == 2^UintBits

NoErr == "nil"
ErrMissing == "Decr: Missing refcount"
NoRet == [op |-> "none", val |-> 0, err |-> NoErr]

----------------------------------------------------------------------------
(* The store *)

newRefCount == [count |-> 0, mounted |-> FALSE, dev |-> NoDev]

NewRefCountsMap == [v \in {} |-> newRefCount]

Has(m, vol) == vol \in DOMAIN m

Put(m, vol, rc) == [v \in (DOMAIN m) \cup {vol} |-> IF v = vol THEN rc ELSE m[v]]

Delete(m, vol) == [v \in (DOMAIN m) \ {vol} |-> m[v]]

\* a write through the pointer rc; it reaches the map only while the map holds rc
SetCount(m, vol, n) == IF Has(m, vol) THEN [m EXCEPT ![vol].count = n] ELSE m

GetCount(vol) == IF ~Has(refMap, vol) THEN 0 ELSE refMap[vol].count

Lock_NoMutex(m) == TRUE

Lock(m) == m.writer = None /\ m.readers = {}

RLock(m) == m.writer = None

Unlock(m) == [m EXCEPT !.writer = None]

RUnlock(m, p) == [m EXCEPT !.readers = @ \ {p}]

\* lines 218-222 of Incr: rc := r.refMap[vol], created when nil
IncrFetch(m, vol) == IF Has(m, vol) THEN m ELSE Put(m, vol, newRefCount)

\* lines 223-224 of Incr: rc.count++ on the loaded value t, return rc.count
IncrStore(m, vol, t) ==
  LET n == (t + 1) % UintMod
  IN [map |-> SetCount(m, vol, n), val |-> n]

\* lines 236-238 of Decr: no record
DecrMissing_Create(m, vol) == [map |-> Put(m, vol, newRefCount), val |-> 0, err |-> ErrMissing]

DecrMissing(m, vol) == [map |-> m, val |-> 0, err |-> ErrMissing]

\* lines 240-247 of Decr: a record whose count is 0
DecrZero_Wrap(m, vol) ==
  LET n == (0 + UintMod - 1) % UintMod
  IN [map |-> SetCount(m, vol, n), val |-> n, err |-> NoErr]

DecrZero_Keep(m, vol) == [map |-> m, val |-> 0, err |-> NoErr]

DecrZero(m, vol) == [map |-> Delete(m, vol), val |-> 0, err |-> NoErr]

\* lines 249-258 of Decr: rc.count-- on the loaded value t; delete at 0
DecrStore_KeepMounted(m, vol, t) ==
  LET n == (t + UintMod - 1) % UintMod
      m1 == SetCount(m, vol, n)
  IN [map |-> IF n <= 0 /\ ~m[vol].mounted THEN Delete(m1, vol) ELSE m1,
      val |-> n, err |-> NoErr]

DecrStore_NoDelete(m, vol, t) ==
  LET n == (t + UintMod - 1) % UintMod
  IN [map |-> SetCount(m, vol, n), val |-> n, err |-> NoErr]

DecrStore_NoSub(m, vol, t) == [map |-> SetCount(m, vol, t), val |-> t, err |-> NoErr]

DecrStore(m, vol, t) ==
  LET n == (t + UintMod - 1) % UintMod
      m1 == SetCount(m, vol, n)
  IN [map |-> IF n <= 0 THEN Delete(m1, vol) ELSE m1, val |-> n, err |-> NoErr]

----------------------------------------------------------------------------
(* The goroutines of the request layer, and the API calls step by step *)

IncrPcs == {"Incr_Lock", "Incr_fetch", "Incr_store"}

\* where a goroutine continues when its call returns
ReturnTo(p) == IF p = InitProc THEN "mounts" ELSE "idle"

Max(a, b) == IF a >= b THEN a ELSE b

CallIncr(c, vol) ==
  /\ pc[c] = "idle" /\ started < MaxOps
  /\ pc' = [pc EXCEPT ![c] = "Incr_Lock"]
  /\ arg' = [arg EXCEPT ![c] = vol]
  /\ started' = started + 1
  /\ conc' = [conc EXCEPT ![vol] =
       Max(@, 1 + Cardinality({q \in Callers : pc[q] \in IncrPcs /\ arg[q] = vol}))]
  /\ UNCHANGED <<storeVars, tmp, ret, nIncr, nDecr, balanced, incrRets, base,
                 envVars, discVars>>

CallDecr(c, vol) ==
  /\ pc[c] = "idle" /\ started < MaxOps
  /\ pc' = [pc EXCEPT ![c] = "Decr_Lock"]
  /\ arg' = [arg EXCEPT ![c] = vol]
  /\ started' = started + 1
  /\ UNCHANGED <<storeVars, tmp, ret, nIncr, nDecr, balanced, incrRets, conc, base,
                 envVars, discVars>>

CallGetCount(c, vol) ==
  /\ pc[c] = "idle" /\ started < MaxOps
  /\ pc' = [pc EXCEPT ![c] = "GetCount_RLock"]
  /\ arg' = [arg EXCEPT ![c] = vol]
  /\ started' = started + 1
  /\ UNCHANGED <<storeVars, tmp, ret, nIncr, nDecr, balanced, incrRets, conc, base,
                 envVars, discVars>>

\* GetCount, lines 200-210
GetCountRLock(p) ==
  /\ pc[p] = "GetCount_RLock" /\ RLock(mtx)
  /\ mtx' = [mtx EXCEPT !.readers = @ \cup {p}]
  /\ pc' = [pc EXCEPT ![p] = "GetCount_read"]
  /\ UNCHANGED <<refMap, arg, tmp, ret, histVars, envVars, discVars>>

GetCountRead(p) ==
  /\ pc[p] = "GetCount_read"
  /\ ret' = [ret EXCEPT ![p] = [op |-> "GetCount", val |-> GetCount(arg[p]), err |-> NoErr]]
  /\ mtx' = RUnlock(mtx, p)
  /\ pc' = [pc EXCEPT ![p] = "idle"]
  /\ UNCHANGED <<refMap, arg, tmp, histVars, envVars, discVars>>

\* Incr, lines 213-225
IncrLock(p) ==
  /\ pc[p] = "Incr_Lock" /\ Lock(mtx)
  /\ mtx' = [mtx EXCEPT !.writer = p]
  /\ pc' = [pc EXCEPT ![p] = "Incr_fetch"]
  /\ UNCHANGED <<refMap, arg, tmp, ret, histVars, envVars, discVars>>

IncrLookup(p) ==
  /\ pc[p] = "Incr_fetch"
  /\ refMap' = IncrFetch(refMap, arg[p])
  /\ tmp' = [tmp EXCEPT ![p] = refMap'[arg[p]].count]
  /\ pc' = [pc EXCEPT ![p] = "Incr_store"]
  /\ UNCHANGED <<mtx, arg, ret, histVars, envVars, discVars>>

IncrCount(p) ==
  /\ pc[p] = "Incr_store"
  /\ LET r == IncrStore(refMap, arg[p], tmp[p])
     IN /\ refMap' = r.map
        /\ ret' = [ret EXCEPT ![p] = [op |-> "Incr", val |-> r.val, err |-> NoErr]]
        /\ incrRets' = [incrRets EXCEPT ![arg[p]] = @ \cup {r.val}]
  /\ nIncr' = [nIncr EXCEPT ![arg[p]] = @ + 1]
  /\ mtx' = Unlock(mtx)
  /\ pc' = [pc EXCEPT ![p] = ReturnTo(p)]
  /\ UNCHANGED <<arg, tmp, started, nDecr, balanced, conc, base, envVars, discVars>>

\* Decr, lines 230-259
DecrLock(p) ==
  /\ pc[p] = "Decr_Lock" /\ Lock(mtx)
  /\ mtx' = [mtx EXCEPT !.writer = p]
  /\ pc' = [pc EXCEPT ![p] = "Decr_fetch"]
  /\ UNCHANGED <<refMap, arg, tmp, ret, histVars, envVars, discVars>>

\* a Decr call returns: the history records it
DecrReturns(p, r) ==
  /\ refMap' = r.map
  /\ ret' = [ret EXCEPT ![p] = [op |-> "Decr", val |-> r.val, err |-> r.err]]
  /\ nDecr' = [nDecr EXCEPT ![arg[p]] = @ + 1]
  /\ balanced' = [balanced EXCEPT ![arg[p]] = @ /\ nDecr[arg[p]] < nIncr[arg[p]]]
  /\ mtx' = Unlock(mtx)
  /\ pc' = [pc EXCEPT ![p] = "idle"]

DecrLookup(p) ==
  /\ pc[p] = "Decr_fetch"
  /\ IF ~Has(refMap, arg[p])
       THEN DecrReturns(p, DecrMissing(refMap, arg[p])) /\ UNCHANGED tmp
       ELSE IF refMap[arg[p]].count = 0
         THEN DecrReturns(p, DecrZero(refMap, arg[p])) /\ UNCHANGED tmp
         ELSE /\ tmp' = [tmp EXCEPT ![p] = refMap[arg[p]].count]
              /\ pc' = [pc EXCEPT ![p] = "Decr_store"]
              /\ UNCHANGED <<refMap, mtx, ret, nDecr, balanced>>
  /\ UNCHANGED <<arg, started, nIncr, incrRets, conc, base, envVars, discVars>>

DecrCount(p) ==
  /\ pc[p] = "Decr_store"
  /\ DecrReturns(p, DecrStore(refMap, arg[p], tmp[p]))
  /\ UNCHANGED <<arg, tmp, started, nIncr, incrRets, conc, base, envVars, discVars>>

----------------------------------------------------------------------------
(* The request layer serving calls on a store whose Init has returned *)

TypeOK ==
  /\ DOMAIN refMap \subseteq Vols
  /\ \A v \in DOMAIN refMap : refMap[v].count \in 0..(UintMod - 1)
  /\ mtx.writer \in Procs \cup {None}

ZeroHist == [v \in Vols |-> 0]

InitCommon ==
  /\ mtx = [writer |-> None, readers |-> {}]
  /\ arg = [p \in Procs |-> "vol1"]
  /\ tmp = [p \in Procs |-> 0]
  /\ ret = [p \in Procs |-> NoRet]
  /\ started = 0
  /\ nIncr = ZeroHist /\ nDecr = ZeroHist
  /\ balanced = [v \in Vols |-> TRUE]
  /\ incrRets = [v \in Vols |-> {}]
  /\ conc = ZeroHist
  /\ base = refMap
  /\ ctLeft = 0 /\ mounts = << >> /\ tableMounts = [v \in Vols |-> NoDev] /\ todo = {}
  /\ engineUse = ZeroHist
  /\ nList = 0 /\ inspected = << >> /\ readFile = "none"
  /\ driverCalls = [v \in Vols |-> <<>>]

Init ==
  /\ refMap = NewRefCountsMap
  /\ pc = [p \in Procs |-> IF p = InitProc THEN "done" ELSE "idle"]
  /\ envFlag = FALSE /\ clientOk = TRUE /\ infoOk = TRUE /\ listOk = TRUE
  /\ mountRoot = << >> /\ driverName = ""
  /\ InitCommon

\* the stores a completed Init can leave behind: discovery counted the volume
\* (count > 0) or the scan of /proc/mounts found it (mounted, with its device);
\* one consumer per volume is enough for the calls that follow
PostInitStores ==
  LET Recs == [count : {0, 1}, mounted : BOOLEAN, dev : Devs \cup {NoDev}]
      Left(v, rc) == /\ rc.mounted \/ rc.count > 0
                     /\ rc.dev = IF ~rc.mounted THEN NoDev
                                 ELSE IF v = "vol1" THEN Dev1 ELSE Dev2
  IN {m \in UNION {[D -> Recs] : D \in SUBSET Vols} :
        \A v \in DOMAIN m : Left(v, m[v])}

InitServe ==
  /\ refMap \in PostInitStores
  /\ pc = [p \in Procs |-> IF p = InitProc THEN "done" ELSE "idle"]
  /\ envFlag = TRUE /\ clientOk = TRUE /\ infoOk = TRUE /\ listOk = TRUE
  /\ mountRoot = MountDir /\ driverName = "vmdk"
  /\ InitCommon

Request(c) ==
  \/ \E vol \in Vols : CallIncr(c, vol) \/ CallDecr(c, vol) \/ CallGetCount(c, vol)
  \/ GetCountRLock(c) \/ GetCountRead(c)
  \/ IncrLock(c) \/ IncrLookup(c) \/ IncrCount(c)
  \/ DecrLock(c) \/ DecrLookup(c) \/ DecrCount(c)

Next == \E c \in Callers : Request(c)

Spec == Init /\ [][Next]_vars

SpecServe == InitServe /\ [][Next]_vars

----------------------------------------------------------------------------
(* Startup discovery: Init, discoverAndSync, getMountInfo,                 *)
(* syncMountsWithRefCounters, run by the goroutine InitProc                *)

\* what the environment can hand to discovery
Mounts == [name : Vols, driver : DriverNames]          \* types.MountPoint: Name, Driver
MountLists == UNION {[1..n -> Mounts] : n \in 0..MaxMounts}
Root(vol) == MountDir \o <<vol>>
LineSet ==                                             \* lines of /proc/mounts, as fields
  { <<Dev1, Root("vol1"), <<"ext2">>, <<"rw,relatime">> >>,
    <<Dev2, Root("vol2")>>,
    <<Dev2, Root("vol1")>>,
    <<Dev1>>,
    << >>,
    <<Dev1, <<"mnt", "other", "vol1">> >>,
    <<Dev1, MountDir \o <<"sub", "vol2">> >>,
    <<Dev1, MountDir>> }
Tables == UNION {[1..n -> LineSet] : n \in 0..MaxLines}
MkStatus(fs, acc, id) ==                               \* the map GetVolume returns
  [k \in {"fstype"} \cup (IF acc = Absent THEN {} ELSE {"access"})
                    \cup (IF id = Absent THEN {} ELSE {"ID"}) |->
     CASE k = "fstype" -> fs [] k = "access" -> acc [] k = "ID" -> id]
Statuses == {MkStatus(fs, acc, id) : fs \in FsTypes,
                                     acc \in {"read-only", "read-write", Absent},
                                     id \in {"disk1", Absent}}
Lookup(status, k) == IF k \in DOMAIN status THEN status[k] ELSE Absent

\* the device of the last line of the table that mounts vol under the mount root
TableDev(data, vol) ==
  LET I == {i \in 1..Len(data) : Len(data[i]) >= 2 /\ data[i][2] = Root(vol)}
  IN IF I = {} THEN NoDev ELSE data[CHOOSE i \in I : \A j \in I : j <= i][1]

\* one entry of the history of driver calls
Call(op, ok, fstype, access, id, ro) ==
  [op |-> op, ok |-> ok, fstype |-> fstype, access |-> access, id |-> id, ro |-> ro]

\* filepath.Dir and filepath.Base on a path given by its components
Dir(path) == IF Len(path) = 0 THEN << >> ELSE SubSeq(path, 1, Len(path) - 1)
Base(path) == IF Len(path) = 0 THEN "/" ELSE path[Len(path)]

\* getMountInfo, lines 388-404: one line of /proc/mounts, split into fields
ScanLine_AnyDir(m, field, root) ==
  IF Len(field) < 2 THEN m
  ELSE LET volName == Base(field[2])
           refInfo == IF Has(m, volName) THEN m[volName] ELSE newRefCount
       IN Put(m, volName, [refInfo EXCEPT !.mounted = TRUE, !.dev = field[1]])

ScanLine(m, field, root) ==
  IF Len(field) < 2 THEN m
  ELSE IF Dir(field[2]) # root THEN m
  ELSE LET volName == Base(field[2])
           refInfo == IF Has(m, volName) THEN m[volName] ELSE newRefCount
       IN Put(m, volName, [refInfo EXCEPT !.mounted = TRUE, !.dev = field[1]])

\* getMountInfo, line 387: the loop over the lines
RECURSIVE ScanLines(_, _, _)
ScanLines(m, lines, root) ==
  IF lines = << >> THEN m
  ELSE ScanLines(ScanLine(m, Head(lines), root), Tail(lines), root)

\* syncMountsWithRefCounters, lines 326-341: what a record calls for
RecoveryAction_NoMount(cnt) ==
  IF cnt.mounted THEN (IF cnt.count = 0 THEN "unmount" ELSE "none")
  ELSE (IF cnt.count = 0 THEN "panic" ELSE "none")

RecoveryAction_NoUnmount(cnt) ==
  IF cnt.mounted THEN "none" ELSE IF cnt.count = 0 THEN "panic" ELSE "mount"

RecoveryAction_UnmountMounted(cnt) ==
  IF cnt.mounted THEN "unmount" ELSE IF cnt.count = 0 THEN "panic" ELSE "mount"

RecoveryAction(cnt) ==
  IF cnt.mounted
    THEN IF cnt.count = 0 THEN "unmount" ELSE "none"
    ELSE IF cnt.count = 0 THEN "panic" ELSE "mount"

\* syncMountsWithRefCounters, lines 352-366: the arguments of the recovery mount
MountArgs_AccessPresent(status, drv) ==
  [fstype |-> status["fstype"],
   id |-> IF drv = photonDriver /\ "ID" \in DOMAIN status THEN status["ID"] ELSE "",
   ro |-> "access" \in DOMAIN status]

MountArgs(status, drv) ==
  [fstype |-> status["fstype"],
   id |-> IF drv = photonDriver /\ "ID" \in DOMAIN status THEN status["ID"] ELSE "",
   ro |-> "access" \in DOMAIN status /\ status["access"] = "read-only"]

\* the mounts of a list that discovery counts for vol
CountMounts(ms, vol, drv) ==
  Cardinality({i \in 1..Len(ms) : ms[i].name = vol /\ ms[i].driver = drv})

\* Init, lines 155-180: the opt-in flag, the client, the engine info query
InitGate_NoInfoCheck(flag, cOk, iOk) ==
  IF ~flag THEN "done" ELSE IF ~cOk THEN "panic" ELSE "purge"

InitGate(flag, cOk, iOk) ==
  IF ~flag THEN "done"                \* lines 156-160
  ELSE IF ~cOk THEN "panic"           \* lines 161-165
  ELSE IF ~iOk THEN "done"            \* lines 170-177
  ELSE "purge"                        \* line 182

InitEnter ==
  /\ pc[InitProc] = "start"
  /\ pc' = [pc EXCEPT ![InitProc] = InitGate(envFlag, clientOk, infoOk)]
  /\ IF envFlag /\ clientOk
       THEN /\ mountRoot' = MountDir                           \* lines 166-167
            /\ \E name \in DriverNames : driverName' = name
       ELSE UNCHANGED <<mountRoot, driverName>>
  /\ UNCHANGED <<storeVars, arg, tmp, ret, histVars, envVars, ctLeft, mounts, tableMounts,
                 todo, engineUse, nList, inspected, readFile, driverCalls>>

\* discoverAndSync, lines 265-269: purge the refcounts
Purge_ZeroCounts(m) == [v \in DOMAIN m |-> [m[v] EXCEPT !.count = 0]]

Purge_Keep(m) == m

Purge(m) == NewRefCountsMap

PurgeStore ==
  /\ pc[InitProc] = "purge" /\ Lock(mtx)
  /\ refMap' = Purge(refMap)
  /\ pc' = [pc EXCEPT ![InitProc] = "list"]
  /\ UNCHANGED <<mtx, arg, tmp, ret, histVars, envVars, discVars>>

\* discoverAndSync, lines 279-281, and Init, lines 183-186: an error of
\* ContainerList is returned, and Init logs it and returns
ListNext_IgnoreError(ok) == "inspect"

ListNext(ok) == IF ok THEN "inspect" ELSE "done"

\* discoverAndSync, lines 271-283 (and Init, lines 183-186, when the list fails)
ContainerList ==
  /\ pc[InitProc] = "list"
  /\ nList' = nList + 1
  /\ pc' = [pc EXCEPT ![InitProc] = ListNext(listOk)]
  /\ IF listOk
       THEN \E n \in 0..MaxContainers : ctLeft' = n
       ELSE UNCHANGED ctLeft
  /\ UNCHANGED <<storeVars, arg, tmp, ret, histVars, envVars, mountRoot, driverName, mounts,
                 tableMounts, todo, engineUse, inspected, readFile, driverCalls>>

\* discoverAndSync, line 284: the range loop over the containers is over when
\* none is left
LoopDone_Early(left) == TRUE

LoopDone(left) == left = 0

\* discoverAndSync, lines 284-290: the next container, inspected
InspectSkips(ok) == ~ok

ContainerInspect ==
  /\ pc[InitProc] = "inspect" /\ ~LoopDone(ctLeft)
  /\ ctLeft' = ctLeft - 1
  /\ \E ok \in BOOLEAN, ms \in MountLists :
       /\ inspected' = Append(inspected, ok)
       /\ IF InspectSkips(ok)
            THEN /\ ms = << >>
                 /\ UNCHANGED <<pc, mounts, engineUse>>
            ELSE /\ mounts' = ms
                 /\ engineUse' = [v \in Vols |->
                                    engineUse[v] + CountMounts(ms, v, driverName)]
                 /\ pc' = [pc EXCEPT ![InitProc] = "mounts"]
  /\ UNCHANGED <<storeVars, arg, tmp, ret, histVars, envVars, mountRoot, driverName,
                 tableMounts, todo, nList, readFile, driverCalls>>

\* discoverAndSync, lines 292-298: the next mount of the container
CountsMount_Any(mount, drv) == TRUE

CountsMount(mount, drv) == mount.driver = drv

VisitMount ==
  /\ pc[InitProc] = "mounts"
  /\ IF mounts = << >>
       THEN pc' = [pc EXCEPT ![InitProc] = "inspect"] /\ UNCHANGED <<arg, mounts>>
       ELSE /\ mounts' = Tail(mounts)
            /\ IF CountsMount(Head(mounts), driverName)
                 THEN /\ pc' = [pc EXCEPT ![InitProc] = "Incr_Lock"]
                      /\ arg' = [arg EXCEPT ![InitProc] = Head(mounts).name]
                 ELSE UNCHANGED <<pc, arg>>
  /\ UNCHANGED <<storeVars, tmp, ret, histVars, envVars, mountRoot, driverName, ctLeft,
                 tableMounts, todo, engineUse, nList, inspected, readFile, driverCalls>>

\* discoverAndSync, lines 305-306: the error getMountInfo returns is dropped and
\* syncMountsWithRefCounters is called next
ScanNext_ReturnOnError(failed) == IF failed THEN "done" ELSE "sync"

ScanNext(failed) == "sync"

\* discoverAndSync, line 305, and getMountInfo, lines 377-408
getMountInfo ==
  /\ pc[InitProc] = "inspect" /\ LoopDone(ctLeft) /\ Lock(mtx)
  /\ \/ /\ readFile' = "error"
        /\ UNCHANGED <<refMap, tableMounts>>
     \/ \E data \in Tables :
          /\ readFile' = "ok"
          /\ tableMounts' = [v \in Vols |-> TableDev(data, v)]
          /\ refMap' = ScanLines(refMap, data, mountRoot)
  /\ pc' = [pc EXCEPT ![InitProc] = ScanNext(readFile' = "error")]
  /\ UNCHANGED <<mtx, arg, tmp, ret, histVars, envVars, mountRoot, driverName, ctLeft,
                 mounts, todo, engineUse, nList, inspected, driverCalls>>

\* syncMountsWithRefCounters, lines 312-317: take the lock, start the range loop
syncLock ==
  /\ pc[InitProc] = "sync" /\ Lock(mtx)
  /\ mtx' = [mtx EXCEPT !.writer = InitProc]
  /\ todo' = DOMAIN refMap
  /\ pc' = [pc EXCEPT ![InitProc] = "sync_loop"]
  /\ UNCHANGED <<refMap, arg, tmp, ret, histVars, envVars, mountRoot, driverName, ctLeft,
                 mounts, tableMounts, engineUse, nList, inspected, readFile, driverCalls>>

Log(vol, calls) == [driverCalls EXCEPT ![vol] = @ \o calls]

\* syncMountsWithRefCounters, lines 331-333, 348-349 and 367-369: an error of a
\* driver call is logged and the range loop goes on with the volumes left
Remaining_StopOnError(rest, ok) == IF ok THEN rest ELSE {}

Remaining(rest, ok) == rest

\* syncMountsWithRefCounters, lines 317-373: the body of the range loop assigns
\* nothing to r.refMap or to a field of cnt, whatever the driver returned
AfterSync_ForgetUnmounted(m, vol, act) ==
  IF act = "unmount" THEN Delete(m, vol) ELSE m

AfterSync(m, vol, act) == m

\* syncMountsWithRefCounters, lines 317-373: one iteration of the range loop
syncVolume ==
  /\ pc[InitProc] = "sync_loop"
  /\ \E vol \in todo :
       LET act == RecoveryAction(refMap[vol])
           rest == todo \ {vol}
       IN
          /\ refMap' = AfterSync(refMap, vol, act)
          /\ IF act = "unmount"
               THEN /\ \E ok \in BOOLEAN :
                         /\ driverCalls' =
                              Log(vol, <<Call("UnmountVolume", ok, "", "", "", FALSE)>>)
                         /\ todo' = Remaining(rest, ok)
                    /\ UNCHANGED <<pc, mtx>>
             ELSE IF act = "none"
               THEN todo' = rest /\ UNCHANGED <<pc, mtx, driverCalls>>
             ELSE IF act = "panic"
               THEN /\ pc' = [pc EXCEPT ![InitProc] = "panic"]
                    /\ mtx' = Unlock(mtx)
                    /\ todo' = rest
                    /\ UNCHANGED driverCalls
             ELSE /\ \/ /\ driverCalls' =
                             Log(vol, <<Call("GetVolume", FALSE, "", "", "", FALSE)>>)
                        /\ todo' = Remaining(rest, FALSE)
                     \/ \E status \in Statuses, ok \in BOOLEAN :
                          LET a == MountArgs(status, driverName) IN
                          /\ driverCalls' = Log(vol,
                               <<Call("GetVolume", TRUE, status["fstype"],
                                      Lookup(status, "access"), Lookup(status, "ID"), FALSE),
                                 Call("MountVolume", ok, a.fstype, "", a.id, a.ro)>>)
                          /\ todo' = Remaining(rest, ok)
                  /\ UNCHANGED <<pc, mtx>>
  /\ UNCHANGED <<arg, tmp, ret, histVars, envVars, mountRoot, driverName, ctLeft,
                 mounts, tableMounts, engineUse, nList, inspected, readFile>>

\* syncMountsWithRefCounters, line 374: the loop is over, the deferred Unlock runs
syncReturn ==
  /\ pc[InitProc] = "sync_loop" /\ todo = {}
  /\ mtx' = Unlock(mtx)
  /\ pc' = [pc EXCEPT ![InitProc] = "log"]
  /\ UNCHANGED <<refMap, arg, tmp, ret, histVars, envVars, discVars>>

\* Init, lines 188-196: log what was discovered, under the read lock
InitReturn ==
  /\ pc[InitProc] = "log" /\ RLock(mtx)
  /\ pc' = [pc EXCEPT ![InitProc] = "done"]
  /\ UNCHANGED <<storeVars, arg, tmp, ret, histVars, envVars, discVars>>

\* the stores Init can be called on: a new one, or one on which Incr("vol1") was called
PriorStores ==
  {NewRefCountsMap, Put(NewRefCountsMap, "vol1", [newRefCount EXCEPT !.count = 1])}

InitDiscovery ==
  /\ refMap \in PriorStores
  /\ pc = [p \in Procs |-> IF p = InitProc THEN "start" ELSE "idle"]
  /\ envFlag \in BOOLEAN /\ clientOk \in BOOLEAN /\ infoOk \in BOOLEAN
  /\ listOk \in BOOLEAN
  /\ mountRoot = << >> /\ driverName = ""
  /\ InitCommon

Discovery ==
  \/ InitEnter \/ PurgeStore \/ ContainerList \/ ContainerInspect \/ VisitMount
  \/ IncrLock(InitProc) \/ IncrLookup(InitProc) \/ IncrCount(InitProc)
  \/ getMountInfo \/ syncLock \/ syncVolume \/ syncReturn \/ InitReturn

SpecDiscovery == InitDiscovery /\ [][Discovery]_vars

----------------------------------------------------------------------------
(* Requests served while Init runs: the ordering the comment of Init asks for
   (lines 152-154) is not kept. *)

\* the environment of the racing discovery, drawn from a smaller set: at most
\* one container with at most one mount, one reading of a mounted volume, and
\* driver calls that succeed with one status of GetVolume
RaceEnv ==
  /\ ctLeft <= 1 /\ Len(inspected) <= 1 /\ Len(mounts) <= 1
  /\ driverName \in {"", "vmdk"}
  /\ \A v \in Vols :
       /\ tableMounts[v] \in {NoDev, IF v = "vol1" THEN Dev1 ELSE Dev2}
       /\ \A i \in 1..Len(driverCalls[v]) :
            /\ driverCalls[v][i].ok
            /\ driverCalls[v][i].fstype \in {"", "ext4"}
            /\ driverCalls[v][i].access \in {"", Absent}
            /\ driverCalls[v][i].id \in {"", Absent}

\* a request of the plugin's mount/unmount handlers: Incr or Decr
Handler(c) ==
  \/ \E vol \in Vols : CallIncr(c, vol) \/ CallDecr(c, vol)
  \/ IncrLock(c) \/ IncrLookup(c) \/ IncrCount(c)
  \/ DecrLock(c) \/ DecrLookup(c) \/ DecrCount(c)

InitRace ==
  /\ refMap \in PriorStores
  /\ pc = [p \in Procs |-> IF p = InitProc THEN "start" ELSE "idle"]
  /\ envFlag = TRUE /\ clientOk = TRUE /\ infoOk = TRUE /\ listOk = TRUE
  /\ mountRoot = << >> /\ driverName = ""
  /\ InitCommon

\* the goroutines serving requests while Init runs: one is enough, since every
\* Incr and Decr holds the write lock from its first to its last access
RaceCallers == {1}

Race ==
  \/ Discovery /\ RaceEnv'
  \/ \E c \in RaceCallers : Handler(c)

SpecRace == InitRace /\ [][Race]_vars

----------------------------------------------------------------------------
(* Properties of the API: GetCount, Incr, Decr *)

DecrRet(val, err) == [op |-> "Decr", val |-> val, err |-> err]

\* the step in which caller c's Decr looks its volume up (lines 235-247)
DecrFetchStep(c) == pc[c] = "Decr_fetch" /\ pc'[c] # "Decr_fetch"

\* C1: from an empty store, while every Decr on a volume found a matching
\* earlier Incr, GetCount of the volume is the number of its Incr calls minus
\* the number of its Decr calls, whatever was done to other volumes.
C1_CountIsIncrMinusDecr ==
  \A v \in Vols : (base = NewRefCountsMap /\ balanced[v]) =>
    GetCount(v) = nIncr[v] - nDecr[v]

C1_Witness ==
  \E v \in Vols :
    /\ base = NewRefCountsMap /\ balanced[v]
    /\ nIncr[v] = 2 /\ nDecr[v] = 1 /\ GetCount(v) = 1

\* C2: Incr calls on one volume, however they overlap, lose no update: with k
\* of them completed (and no Decr) the count is k and they returned 1..k.
C2_ConcurrentIncr ==
  \A v \in Vols : (base = NewRefCountsMap /\ nDecr[v] = 0) =>
    /\ GetCount(v) = nIncr[v]
    /\ incrRets[v] = 1..nIncr[v]

C2_Witness ==
  \E v \in Vols :
    /\ conc[v] = NumCallers /\ nIncr[v] = NumCallers /\ nDecr[v] = 0
    /\ \A c \in Callers : pc[c] = "idle" /\ ret[c].op = "Incr" /\ arg[c] = v
    /\ {ret[c].val : c \in Callers} = 1..NumCallers

BackToZero(v) == nIncr[v] > 0 /\ nDecr[v] = nIncr[v] /\ balanced[v]

\* C5 as claimed: one more Decr after the count was brought back to 0 returns
\* (0, nil) without error.
C5_ExtraDecrNoError ==
  [][\A c \in Callers :
       (DecrFetchStep(c) /\ BackToZero(arg[c])) => ret'[c] = DecrRet(0, NoErr)]_vars

\* C5 amended: one more Decr after the count was brought back to 0 finds no
\* record: it returns (0, missing refcount) and leaves the store unchanged.
C5_ExtraDecrMissing ==
  [][\A c \in Callers :
       (DecrFetchStep(c) /\ BackToZero(arg[c])) =>
          /\ ret'[c] = DecrRet(0, ErrMissing)
          /\ refMap' = refMap]_vars

C5_Witness ==
  \E c \in Callers :
    /\ pc[c] = "idle" /\ ret[c] = DecrRet(0, ErrMissing)
    /\ nIncr[arg[c]] = 1 /\ nDecr[arg[c]] = 2
    /\ \A d \in Callers \ {c} : ret[d] = NoRet /\ pc[d] = "idle"

----------------------------------------------------------------------------
(* Properties of the startup discovery *)

\* the reconciler has visited the record of v
Reconciled(v) ==
  /\ Has(refMap, v)
  /\ \/ pc[InitProc] = "log"
     \/ pc[InitProc] = "done" /\ readFile # "none"
     \/ pc[InitProc] = "sync_loop" /\ v \notin todo

Ops(calls) == [i \in 1..Len(calls) |-> calls[i].op]

\* C6: a record with mounted = true and count = 0 gets exactly one
\* UnmountVolume call from the reconciler, and no GetVolume or MountVolume call.
C6_StaleMountUnmounted ==
  \A v \in Vols :
    (Reconciled(v) /\ refMap[v].mounted /\ refMap[v].count = 0) =>
      Ops(driverCalls[v]) = <<"UnmountVolume">>

C6_Witness ==
  \E v \in Vols :
    /\ pc[InitProc] = "done" /\ Reconciled(v)
    /\ refMap[v].mounted /\ refMap[v].count = 0
    /\ Len(driverCalls[v]) = 1

C8_ConsistentUntouched ==
  \A v \in Vols :
    (Reconciled(v) /\ refMap[v].mounted /\ refMap[v].count > 0) =>
      driverCalls[v] = << >>

C8_Witness ==
  \E v \in Vols :
    /\ pc[InitProc] = "done" /\ Reconciled(v)
    /\ refMap[v].mounted /\ refMap[v].count > 0
    /\ driverCalls[v] = << >>

\* discovery has enumerated the containers (or failed to list them)
Enumerated ==
  nList > 0 /\ pc[InitProc] \in {"sync", "sync_loop", "log", "done"}

\* C9: after a discovery run, whatever the store held before, GetCount of every
\* volume is the number of mounts of that volume through this driver in the
\* containers whose inspection succeeded; a failed inspection adds nothing and
\* does not stop the containers after it from being counted.
C9_DiscoveredCounts ==
  Enumerated => \A v \in Vols : GetCount(v) = engineUse[v]

C9_Witness ==
  /\ pc[InitProc] = "done" /\ Enumerated
  /\ base # NewRefCountsMap
  /\ inspected = <<FALSE, TRUE>>
  /\ GetCount("vol2") = 2 /\ GetCount("vol1") = 0

\* C10: without the opt-in flag, or with it but with the engine info query
\* failing, Init does nothing: the store stays as it was, no container is listed
\* or inspected, /proc/mounts is not read and no driver call is issued.
C10_DiscoverySkipped ==
  (~envFlag \/ (clientOk /\ ~infoOk)) =>
     /\ refMap = base
     /\ nList = 0 /\ inspected = << >> /\ readFile = "none"
     /\ \A v \in Vols : driverCalls[v] = << >>
     /\ pc[InitProc] \in {"start", "done"}

C10_Witness ==
  /\ pc[InitProc] = "done"
  /\ envFlag /\ clientOk /\ ~infoOk
  /\ refMap = base /\ base # NewRefCountsMap

\* The volume driver's side of the reconciliation (the driver is a collaborator
\* of this package): v is mounted under the mount root now when the last
\* UnmountVolume or MountVolume call that succeeded on it was a MountVolume, or,
\* without such a call, when /proc/mounts showed it under the mount root.
MountedNow(v) ==
  LET cs == driverCalls[v]
      S == {i \in 1..Len(cs) : cs[i].ok /\ cs[i].op \in {"UnmountVolume", "MountVolume"}}
  IN IF S = {} THEN tableMounts[v] # NoDev
     ELSE cs[CHOOSE i \in S : \A j \in S : j <= i].op = "MountVolume"

\* every driver call issued so far succeeded
AllCallsOk == \A v \in Vols : \A i \in 1..Len(driverCalls[v]) : driverCalls[v][i].ok

\* the discovery ran through the reconciler and /proc/mounts could be read
RanToCompletion == pc[InitProc] \in {"log", "done"} /\ readFile = "ok"

CallFailed(v) == \E i \in 1..Len(driverCalls[v]) : ~driverCalls[v][i].ok

\* the reconciler is past its loop
SyncOver == pc[InitProc] = "log" \/ (pc[InitProc] = "done" /\ readFile # "none")

\* the driver calls logged for v are those of one pass of the (mounted, count)
\* rule over its record
OnePass(v) ==
  LET cs == driverCalls[v] IN
  IF refMap[v].mounted
    THEN IF refMap[v].count = 0 THEN Ops(cs) = <<"UnmountVolume">> ELSE cs = << >>
    ELSE /\ refMap[v].count > 0
         /\ Len(cs) >= 1
         /\ Ops(cs) = IF cs[1].ok THEN <<"GetVolume", "MountVolume">> ELSE <<"GetVolume">>

\* C12: a driver call that failed on one volume does not end the reconciler's
\* loop: once the loop is over, every other record of the store got the driver
\* calls of exactly one pass of the (mounted, count) rule, and so did the volume
\* on which the call failed.
C12_FailureDoesNotAbort ==
  \A v \in Vols :
    (SyncOver /\ CallFailed(v)) => \A w \in DOMAIN refMap : OnePass(w)

C12_Witness ==
  /\ pc[InitProc] = "done" /\ DOMAIN refMap = Vols
  /\ Ops(driverCalls["vol1"]) = <<"UnmountVolume">> /\ CallFailed("vol1")
  /\ Ops(driverCalls["vol2"]) = <<"GetVolume", "MountVolume">> /\ CallFailed("vol2")

\* C15: the steps of a discovery run come in a fixed order: when the containers
\* are listed the store has been purged and nothing was inspected or counted;
\* a container is inspected and an Incr is made only after the list and before
\* /proc/mounts is read; /proc/mounts is read only when every container was
\* visited and no Incr is under way; a driver call is issued only after
\* /proc/mounts was read.
C15_FixedOrder ==
  [][/\ (nList' # nList) =>
          /\ refMap = NewRefCountsMap /\ inspected = << >>
          /\ nIncr = ZeroHist /\ readFile = "none"
     /\ (inspected' # inspected \/ nIncr' # nIncr) =>
          /\ nList > 0 /\ readFile = "none" /\ readFile' = "none"
          /\ \A v \in Vols : driverCalls[v] = << >>
     /\ (readFile' # readFile) =>
          /\ nList > 0 /\ ctLeft = 0 /\ mounts = << >>
          /\ pc[InitProc] \notin IncrPcs
          /\ \A v \in Vols : driverCalls[v] = << >>
     /\ (driverCalls' # driverCalls) =>
          /\ readFile # "none" /\ readFile' = readFile
          /\ nIncr' = nIncr /\ inspected' = inspected]_vars

C15_Witness ==
  /\ pc[InitProc] = "done" /\ base # NewRefCountsMap
  /\ Len(inspected) = MaxContainers
  /\ nIncr["vol1"] = 1 /\ nIncr["vol2"] = 1
  /\ readFile = "ok"
  /\ \E v \in Vols : driverCalls[v] # << >>

\* C16: when ContainerList fails, the discovery returns at once: no container
\* is inspected, /proc/mounts is not read, the reconciler does not run, no
\* driver call is issued, and the store stays empty as the purge left it.
C16_ListFailureReturnsEarly ==
  (nList > 0 /\ ~listOk) =>
     /\ pc[InitProc] = "done"
     /\ refMap = NewRefCountsMap
     /\ inspected = << >> /\ nIncr = ZeroHist
     /\ readFile = "none" /\ todo = {}
     /\ \A v \in Vols : driverCalls[v] = << >>

C16_Witness ==
  /\ pc[InitProc] = "done" /\ nList = 1 /\ ~listOk
  /\ base # NewRefCountsMap /\ refMap = NewRefCountsMap

\* C17: when /proc/mounts cannot be read, the scan changes no record: the store
\* holds the discovered counts, every record with mounted = false and no
\* device; the reconciler still runs on that store, so every record (its count
\* is > 0) gets its recovery mount calls.
C17_ReadFailureStillReconciles ==
  (readFile = "error") =>
     /\ DOMAIN refMap = {v \in Vols : engineUse[v] > 0}
     /\ \A v \in DOMAIN refMap :
          refMap[v] = [count |-> engineUse[v], mounted |-> FALSE, dev |-> NoDev]
     /\ pc[InitProc] \in {"sync", "sync_loop", "log", "done"}
     /\ SyncOver => \A v \in Vols :
          IF Has(refMap, v)
            THEN /\ Len(driverCalls[v]) >= 1
                 /\ Ops(driverCalls[v]) = IF driverCalls[v][1].ok
                                            THEN <<"GetVolume", "MountVolume">>
                                            ELSE <<"GetVolume">>
            ELSE driverCalls[v] = << >>

C17_Witness ==
  /\ pc[InitProc] = "done" /\ readFile = "error"
  /\ GetCount("vol1") = 2 /\ ~refMap["vol1"].mounted
  /\ Ops(driverCalls["vol1"]) = <<"GetVolume", "MountVolume">>
  /\ ~Has(refMap, "vol2")

\* C18: the scan of /proc/mounts gives every volume with a line whose mount
\* point is directly under the mount root a record with mounted = true, the
\* device of that line and the count the volume had (0 when it had no record);
\* the record of any other volume, and its absence, stay as they were, whatever
\* short lines and mount points elsewhere the file holds.
C18_ScanFrame ==
  [][(readFile = "none" /\ readFile' = "ok") =>
       \A v \in Vols :
         IF tableMounts'[v] # NoDev
           THEN /\ Has(refMap', v)
                /\ refMap'[v] = [count |-> GetCount(v), mounted |-> TRUE,
                                 dev |-> tableMounts'[v]]
           ELSE /\ Has(refMap', v) <=> Has(refMap, v)
                /\ Has(refMap, v) => refMap'[v] = refMap[v]]_vars

C18_Witness ==
  /\ pc[InitProc] = "sync" /\ readFile = "ok"
  /\ engineUse = [v \in Vols |-> IF v = "vol2" THEN 1 ELSE 0]
  /\ Has(refMap, "vol1")
  /\ refMap["vol1"] = [count |-> 0, mounted |-> TRUE, dev |-> Dev2]
  /\ Has(refMap, "vol2")
  /\ refMap["vol2"] = [count |-> 1, mounted |-> TRUE, dev |-> Dev2]

\* C19: a Decr that takes the count of a volume from 1 to 0 returns (0, nil)
\* and removes the record, mounted or not; an Incr on a volume without a record
\* starts from a new record (count 0, mounted = false, no device) and the
\* increment changes nothing but the count, so the record an Incr recreates
\* has mounted = false and no device.
C19_DecrToZeroForgetsMount ==
  [][\A c \in Callers :
       /\ (pc[c] = "Decr_store" /\ pc'[c] = "idle" /\ tmp[c] = 1) =>
            /\ ret'[c] = DecrRet(0, NoErr)
            /\ ~Has(refMap', arg[c])
       /\ (pc[c] = "Incr_fetch" /\ pc'[c] = "Incr_store" /\ ~Has(refMap, arg[c])) =>
            /\ Has(refMap', arg[c])
            /\ refMap'[arg[c]] = [count |-> 0, mounted |-> FALSE, dev |-> NoDev]
       /\ (pc[c] = "Incr_store" /\ pc'[c] = "idle") =>
            /\ Has(refMap', arg[c])
            /\ refMap'[arg[c]] = [refMap[arg[c]] EXCEPT !.count = tmp[c] + 1]]_vars

C19_Witness ==
  \E v \in Vols :
    /\ Has(base, v) /\ base[v] = [count |-> 1, mounted |-> TRUE, dev |-> Dev1]
    /\ nDecr[v] = 1 /\ nIncr[v] = 1
    /\ \A c \in Callers : pc[c] = "idle"
    /\ Has(refMap, v)
    /\ refMap[v] = [count |-> 1, mounted |-> FALSE, dev |-> NoDev]

\* the count the store held for v when the callers started: the number of Incr
\* calls the discovery made for it
BaseCount(v) == IF Has(base, v) THEN base[v].count ELSE 0

\* C20: the unsigned count never wraps around. A Decr reaches its decrement
\* only with the count it read under the lock, which is > 0; the value a Decr
\* returns is 0 or smaller than the count the volume had; no record and no
\* value returned by Incr or Decr is larger than the number of Incr calls made
\* for the volume (those of the discovery included).
C20_NoWrapAround ==
  [][/\ \A c \in Callers :
          /\ (pc'[c] = "Decr_store") =>
                tmp'[c] > 0 /\ tmp'[c] = GetCount(arg[c])'
          /\ (pc[c] \in {"Decr_fetch", "Decr_store"} /\ pc'[c] = "idle") =>
                /\ ret'[c].val = 0 \/ ret'[c].val < GetCount(arg[c])
                /\ ret'[c].val <= BaseCount(arg[c]) + nIncr[arg[c]]
          /\ (pc[c] = "Incr_store" /\ pc'[c] = "idle") =>
                ret'[c].val <= BaseCount(arg[c]) + nIncr'[arg[c]]
     /\ \A v \in Vols : GetCount(v)' <= BaseCount(v) + nIncr'[v]]_vars

C20_Witness ==
  \E v \in Vols :
    /\ BaseCount(v) = 1 /\ nIncr[v] = 0 /\ nDecr[v] = 2
    /\ \A c \in Callers : pc[c] = "idle" /\ arg[c] = v
    /\ {ret[c] : c \in Callers} = {DecrRet(0, NoErr), DecrRet(0, ErrMissing)}
    /\ ~Has(refMap, v)

----------------------------------------------------------------------------
(* Properties of requests racing with the discovery *)

\* C13: however Incr, Decr, the purge, the scan of /proc/mounts and the
\* reconciler interleave, no record has count = 0 and mounted = false while
\* the lock is free or held by the reconciler (the only such record is the one
\* an Incr has just created and is about to increment, under its lock), and
\* the reconciler never reaches its branch for (mounted = false, count = 0).
C13_NoZeroUnmounted ==
  /\ pc[InitProc] # "panic"
  /\ \A v \in DOMAIN refMap :
       (refMap[v].count = 0 /\ ~refMap[v].mounted) =>
          \E p \in Procs : mtx.writer = p /\ pc[p] = "Incr_store" /\ arg[p] = v

C13_Witness ==
  \E v \in Vols, w \in Vols :
    /\ pc[InitProc] = "done" /\ readFile = "ok"
    /\ nDecr[v] = 1 /\ nIncr[v] = engineUse[v] + 1 /\ engineUse[v] = 1
    /\ GetCount(v) = 1
    /\ Has(refMap, w) /\ refMap[w].count = 0 /\ refMap[w].mounted
    /\ Ops(driverCalls[w]) = <<"UnmountVolume">>

\* C14: when Incr and Decr calls of the handlers interleave with a discovery
\* run, the count the reconciler acts on can differ from the use the engine
\* reported, and then an Incr or a Decr of a handler on that volume has been
\* applied during the run: without a call of a handler the two agree (started
\* counts the calls the handlers made). C14_Witness is such a
\* run: a Decr after the enumeration makes the reconciler unmount a volume the
\* engine reported in use, and an Incr after the purge makes it mount a volume
\* the engine did not report.
C14_DivergenceNeedsRace ==
  \A v \in Vols :
    (pc[InitProc] = "sync_loop" /\ GetCount(v) # engineUse[v]) =>
       /\ started > 0
       /\ nDecr[v] > 0 \/ nIncr[v] > engineUse[v]

C14_Witness ==
  \E v \in Vols, w \in Vols :
    /\ pc[InitProc] = "sync_loop" /\ todo = {} /\ readFile = "ok"
    /\ engineUse[v] = 1 /\ nDecr[v] = 1 /\ GetCount(v) = 0
    /\ tableMounts[v] # NoDev
    /\ Ops(driverCalls[v]) = <<"UnmountVolume">>
    /\ engineUse[w] = 0 /\ nIncr[w] = 1 /\ GetCount(w) = 1
    /\ tableMounts[w] = NoDev
    /\ Ops(driverCalls[w]) = <<"GetVolume", "MountVolume">>

----------------------------------------------------------------------------
(* Frame of the reconciler *)

\* the store is what the enumeration and the scan of /proc/mounts made of it:
\* a record for every volume the engine reported or /proc/mounts showed under
\* the mount root, with the reported use as count and the device of its line
StoreAsScanned ==
  \A v \in Vols :
    IF engineUse[v] > 0 \/ tableMounts[v] # NoDev
      THEN /\ Has(refMap, v)
           /\ refMap[v] = [count |-> engineUse[v],
                           mounted |-> tableMounts[v] # NoDev,
                           dev |-> tableMounts[v]]
      ELSE ~Has(refMap, v)

\* C21: no step of syncMountsWithRefCounters changes the store, whatever the
\* driver calls returned: when it returns, the keys and every record's count,
\* mounted flag and device are those the enumeration and the scan left; a
\* record with mounted = true and count = 0 is still there, with
\* mounted = true, after its UnmountVolume succeeded.
C21_ReconcilerKeepsStore ==
  [][pc[InitProc] \in {"sync", "sync_loop"} =>
       /\ refMap' = refMap
       /\ pc'[InitProc] = "log" => StoreAsScanned']_vars

C21_Witness ==
  /\ pc[InitProc] = "log" /\ readFile = "ok"
  /\ Has(refMap, "vol1")
  /\ refMap["vol1"] = [count |-> 0, mounted |-> TRUE, dev |-> Dev1]
  /\ Ops(driverCalls["vol1"]) = <<"UnmountVolume">> /\ driverCalls["vol1"][1].ok
  /\ Has(refMap, "vol2")
  /\ refMap["vol2"] = [count |-> 1, mounted |-> FALSE, dev |-> NoDev]
  /\ Ops(driverCalls["vol2"]) = <<"GetVolume", "MountVolume">>
  /\ driverCalls["vol2"][2].ok

====
